---- MODULE Spec2Model ----
(***************************************************************************)
(* A model of codebase.py: load_gitignore, gather_files_to_include,        *)
(* write_codebase_to_file and main.                                        *)
(*                                                                         *)
(* Strings are sequences of one-character strings, so that str.replace,    *)
(* str.split, str.strip and glob matching are computed character by        *)
(* character.  A path is a sequence of components (each a string).         *)
(***************************************************************************)
EXTENDS Naturals, Sequences, FiniteSets

----------------------------------------------------------------------------
(* Bounds of the model *)

\* largest number of lines in the root .gitignore
MaxLines == 2

\* largest number of leaf entries (non-directories) placed under the root
MaxLeaves == 2

----------------------------------------------------------------------------
(* Characters and string helpers *)

SLASH == "/"

BACKSLASH == "\\"

Whitespace == {" ", "\t", "\n", "\r"}

\* the last element of a non-empty sequence
Last(s) == s[Len(s)]

\* s without its last element
Front(s) == SubSeq(s, 1, Len(s) - 1)

\* str.replace(old, new) for one-character old and new
Replace(s, old, new) == [i \in DOMAIN s |-> IF s[i] = old THEN new ELSE s[i]]

RECURSIVE Join(_, _)
\* sep.join(components): the str() of a pure path under separator sep
Join(components, sep) ==
    IF components = <<>> THEN <<>>
    ELSE IF Len(components) = 1 THEN components[1]
    ELSE components[1] \o <<sep>> \o Join(Tail(components), sep)

RECURSIVE SplitFrom(_, _, _, _)
SplitFrom(s, i, cur, c) ==
    IF i > Len(s) THEN <<cur>>
    ELSE IF s[i] = c THEN <<cur>> \o SplitFrom(s, i + 1, <<>>, c)
    ELSE SplitFrom(s, i + 1, Append(cur, s[i]), c)

\* s.split(c): always at least one segment, empty segments kept
Split(s, c) == SplitFrom(s, 1, <<>>, c)

RECURSIVE LStrip(_)
LStrip(s) == IF s # <<>> /\ Head(s) \in Whitespace THEN LStrip(Tail(s)) ELSE s

RECURSIVE RStrip(_)
RStrip(s) == IF s # <<>> /\ Last(s) \in Whitespace THEN RStrip(Front(s)) ELSE s

\* str.strip()
Strip(s) == LStrip(RStrip(s))

\* s.startswith(prefix)
StartsWith(s, prefix) ==
    /\ Len(s) >= Len(prefix)
    /\ SubSeq(s, 1, Len(prefix)) = prefix

----------------------------------------------------------------------------
(* The gitwildmatch pattern compiler and matcher used through              *)
(* pathspec.PathSpec.from_lines('gitwildmatch', ...) and spec.match_file   *)

\* the segment '**'
STARSTAR == <<"*", "*">>

\* a line that compiles to no pattern (blank line, comment, lone slash)
NullPattern == [active |-> FALSE, include |-> FALSE, segs |-> <<>>]

\* GitWildMatchPattern.pattern_to_regex: the line is stripped; a blank
\* line, a '#' comment and a lone '/' give a null pattern; a leading '!'
\* negates; the rest is split on '/'; a leading empty segment anchors the
\* pattern at the root; a single segment (with or without a trailing
\* slash) gets a leading '**' (it matches at any depth); a trailing empty
\* segment becomes '**' (everything beneath the directory).
pattern_to_regex(line) ==
    LET p0 == Strip(line) IN
    IF p0 = <<>> \/ Head(p0) = "#" \/ p0 = <<SLASH>> THEN NullPattern
    ELSE
      LET neg  == Head(p0) = "!"
          p    == IF neg THEN Tail(p0) ELSE p0
          raw  == Split(p, SLASH)
          s1   == IF raw[1] = <<>> THEN Tail(raw)
                  ELSE IF Len(raw) = 1 \/ (Len(raw) = 2 /\ raw[2] = <<>>)
                       THEN IF raw[1] # STARSTAR THEN <<STARSTAR>> \o raw ELSE raw
                       ELSE raw
          s2   == IF Len(s1) > 1 /\ Last(s1) = <<>>
                  THEN Front(s1) \o <<STARSTAR>> ELSE s1
      IN [active |-> TRUE, include |-> ~neg, segs |-> s2]

RECURSIVE GlobFrom(_, _, _, _)
\* the regex of one pattern segment (_translate_segment_glob) matched from
\* character g of the glob against the path segment from character c on:
\* '*' is [^/]*, '?' is [^/], any other character is itself
GlobFrom(glob, g, seg, c) ==
    IF g > Len(glob) THEN c > Len(seg)
    ELSE IF glob[g] = "*"
         THEN \/ GlobFrom(glob, g + 1, seg, c)
              \/ c <= Len(seg) /\ seg[c] # SLASH /\ GlobFrom(glob, g, seg, c + 1)
    ELSE IF glob[g] = "?"
         THEN c <= Len(seg) /\ seg[c] # SLASH /\ GlobFrom(glob, g + 1, seg, c + 1)
    ELSE c <= Len(seg) /\ seg[c] = glob[g] /\ GlobFrom(glob, g + 1, seg, c + 1)

\* does the path segment match the pattern segment
SegMatch(glob, seg) == GlobFrom(glob, 1, seg, 1)

RECURSIVE MatchFrom(_, _, _, _)
\* the regex built from the pattern segments P, matched from pattern
\* segment i against the path segments S from segment j on:
\*   leading '**'  is (?:.+/)?      any number of leading segments
\*   trailing '**' is /.*           at least one more segment
\*   inner '**'    is (?:/.+)?      any number of segments
\*   a last glob segment is followed by (?:/.*)?  (the path may go deeper)
MatchFrom(P, i, S, j) ==
    IF P[i] = STARSTAR
    THEN IF i = Len(P)
         THEN IF i = 1 THEN j <= Len(S) /\ S[j] # <<>>
              ELSE j <= Len(S)
         ELSE \E k \in 0..(Len(S) - j + 1) : MatchFrom(P, i + 1, S, j + k)
    ELSE /\ j <= Len(S)
         /\ SegMatch(P[i], S[j])
         /\ (i < Len(P) => MatchFrom(P, i + 1, S, j + 1))

\* pattern.match_file(file) is not None, for a file split into segments
PatternMatches(pat, S) == pat.segs # <<>> /\ MatchFrom(pat.segs, 1, S, 1)

\* pathspec.util.normalize_file: every separator of the platform other
\* than '/' becomes '/', and a leading './' is dropped
normalize_file(file, s) ==
    LET f == IF s # SLASH THEN Replace(file, s, SLASH) ELSE file
    IN  IF StartsWith(f, <<".", SLASH>>) THEN SubSeq(f, 3, Len(f)) ELSE f

RECURSIVE FirstMatch(_, _, _)
\* a matcher in which the first pattern that matches decides
FirstMatch(patterns, i, S) ==
    IF i > Len(patterns) THEN FALSE
    ELSE IF patterns[i].active /\ PatternMatches(patterns[i], S)
         THEN patterns[i].include
         ELSE FirstMatch(patterns, i + 1, S)

\* spec.match_file(file) with the first matching pattern deciding
match_file_first_wins(patterns, file, s) ==
    FirstMatch(patterns, 1, Split(normalize_file(file, s), SLASH))

RECURSIVE MatchFold(_, _, _, _)
\* the loop of PathSpec.match_file: every active pattern that matches
\* overwrites the verdict with its include flag
MatchFold(patterns, i, S, acc) ==
    IF i > Len(patterns) THEN acc
    ELSE MatchFold(patterns, i + 1, S,
                   IF patterns[i].active /\ PatternMatches(patterns[i], S)
                   THEN patterns[i].include ELSE acc)

\* spec.match_file(file)
match_file(patterns, file, s) ==
    MatchFold(patterns, 1, Split(normalize_file(file, s), SLASH), FALSE)

----------------------------------------------------------------------------
(* File names, .gitignore lines and patterns, spelled character by character *)

N_a_py == <<"a", ".", "p", "y">>

N_build == <<"b", "u", "i", "l", "d">>

N_out_log == <<"o", "u", "t", ".", "l", "o", "g">>

N_keep_txt == <<"k", "e", "e", "p", ".", "t", "x", "t">>

N_git == <<".", "g", "i", "t">>

N_config == <<"c", "o", "n", "f", "i", "g">>

N_pycache == <<"_", "_", "p", "y", "c", "a", "c", "h", "e", "_", "_">>

N_m_pyc == <<"m", ".", "p", "y", "c">>

N_DS_Store == <<".", "D", "S", "_", "S", "t", "o", "r", "e">>

N_sub == <<"s", "u", "b">>

N_dir == <<"d", "i", "r">>

N_file_txt == <<"f", "i", "l", "e", ".", "t", "x", "t">>

N_a_bs_b == <<"a", "\\", "b">>

N_lnk == <<"l", "n", "k">>

N_sock == <<"s", "o", "c", "k">>

N_gitignore == <<".", "g", "i", "t", "i", "g", "n", "o", "r", "e">>

\* lines as f.readlines() returns them, line terminator included

L_log == <<"*", ".", "l", "o", "g", "\n">>

L_build == <<"b", "u", "i", "l", "d", "/", "\n">>

L_not_keep == <<"!", "k", "e", "e", "p", ".", "t", "x", "t", "\n">>

L_not_git == <<"!", ".", "g", "i", "t", "/", "\n">>

L_not_pyc == <<"!", "*", ".", "p", "y", "c", "\n">>

L_not_DS == <<"!", ".", "D", "S", "_", "S", "t", "o", "r", "e", "\n">>

P_git == <<".", "g", "i", "t", "/">>

P_pycache == <<"_", "_", "p", "y", "c", "a", "c", "h", "e", "_", "_", "/">>

P_pyc == <<"*", ".", "p", "y", "c">>

P_DS == <<".", "D", "S", "_", "S", "t", "o", "r", "e">>

S_pyc == <<".", "p", "y", "c">>

S_sub_dir_file == <<"s", "u", "b", "/", "d", "i", "r", "/", "f", "i", "l", "e", ".", "t", "x", "t">>


----------------------------------------------------------------------------
(* The directory tree under the root *)

Root == <<>>

\* a test that accepts whatever is not a directory
is_not_dir(kind) == kind # "dir"

\* Path.is_file() on an entry of kind "file", "dir", "symlink_file" or
\* "socket": true of a regular file and, as it follows symbolic links, of a
\* link that resolves to one
is_file(kind) == kind \in {"file", "symlink_file"}

\* the leaf entries a tree is drawn from
LeafUniverse ==
    { [path |-> <<N_a_py>>,                   kind |-> "file"],
      [path |-> <<N_build, N_out_log>>,       kind |-> "file"],
      [path |-> <<N_build, N_keep_txt>>,      kind |-> "file"],
      [path |-> <<N_git, N_config>>,          kind |-> "file"],
      [path |-> <<N_pycache, N_m_pyc>>,       kind |-> "file"],
      [path |-> <<N_DS_Store>>,               kind |-> "file"],
      [path |-> <<N_sub, N_dir, N_file_txt>>, kind |-> "file"],
      [path |-> <<N_a_bs_b>>,                 kind |-> "file"],
      [path |-> <<N_lnk>>,                    kind |-> "symlink_file"],
      [path |-> <<N_sock>>,                   kind |-> "socket"] }

\* the lines a .gitignore is drawn from
LineUniverse == {L_log, L_build, L_not_keep, L_not_git, L_not_pyc, L_not_DS}

\* the root has no .gitignore
NoFile == [is_file |-> FALSE, lines |-> <<>>]

\* a .gitignore file with the given lines
GitignoreFile(lines) == [is_file |-> TRUE, lines |-> lines]

\* does a component contain the character c
HasChar(s, c) == \E i \in DOMAIN s : s[i] = c

\* a tree that can exist under separator sep: a component never contains
\* the platform's separator
TreeOk(t, s) == \A e \in t : \A i \in DOMAIN e.path : ~HasChar(e.path[i], s)

\* the .gitignore file itself, an entry of the root when it exists
GitignoreEntry == [path |-> <<N_gitignore>>, kind |-> "file"]

\* every entry under the root: the leaves, the .gitignore if any, and the
\* directories that contain them
AllEntries(t, gi) ==
    LET leaves == t \cup (IF gi.is_file THEN {GitignoreEntry} ELSE {})
        depth  == 1..3
    IN  leaves \cup { [path |-> SubSeq(x[1].path, 1, x[2]), kind |-> "dir"] :
                        x \in { y \in leaves \X depth : y[2] < Len(y[1].path) } }

\* the order in which the operating system lists names: a fixed listing
\* order, forwards or backwards
NameOrder ==
    << N_sub, N_a_py, N_gitignore, N_build, N_out_log, N_lnk, N_git, N_config,
       N_keep_txt, N_sock, N_pycache, N_m_pyc, N_DS_Store, N_dir, N_file_txt,
       N_a_bs_b >>

Rank(name, rev) ==
    LET i == CHOOSE k \in DOMAIN NameOrder : NameOrder[k] = name
    IN  IF rev THEN Len(NameOrder) + 1 - i ELSE i

RECURSIVE InListingOrder(_, _)
\* a set of entries of one directory as the sequence the listing gives
InListingOrder(es, rev) ==
    IF es = {} THEN <<>>
    ELSE LET e == CHOOSE x \in es :
                    \A o \in es : Rank(Last(x.path), rev) <= Rank(Last(o.path), rev)
         IN  <<e>> \o InListingOrder(es \ {e}, rev)

\* os.scandir(d): the entries directly inside directory d
scandir(all, d, rev) ==
    InListingOrder({ e \in all : /\ Len(e.path) = Len(d) + 1
                                 /\ SubSeq(e.path, 1, Len(d)) = d }, rev)

RECURSIVE iterate_directories(_, _, _)
\* the directories rglob descends into, in pre-order; a symbolic link to a
\* directory is not descended
iterate_directories(all, pending, rev) ==
    IF pending = <<>> THEN <<>>
    ELSE LET d    == Head(pending)
             subs == SelectSeq(scandir(all, d, rev), LAMBDA e : e.kind = "dir")
         IN  <<d>> \o iterate_directories(
                        all, [i \in DOMAIN subs |-> subs[i].path] \o Tail(pending), rev)

RECURSIVE ConcatListings(_, _, _)
ConcatListings(all, dirs, rev) ==
    IF dirs = <<>> THEN <<>>
    ELSE scandir(all, Head(dirs), rev) \o ConcatListings(all, Tail(dirs), rev)

\* root_dir.rglob('*'): the children of every directory, directory by
\* directory in pre-order
rglob(all, rev) == ConcatListings(all, iterate_directories(all, <<Root>>, rev), rev)

----------------------------------------------------------------------------
(* load_gitignore and the path string of gather_files_to_include *)

default_ignores == <<P_git, P_pycache, P_pyc, P_DS>>

\* the lines read from the .gitignore, or none when it is not a file
ReadLines(gi) == IF gi.is_file THEN gi.lines ELSE <<>>

\* load_gitignore's pattern list with the defaults first: a user line wins
\* over a default
load_gitignore_defaults_first(gi) ==
    LET lines == default_ignores \o ReadLines(gi)
    IN  [i \in DOMAIN lines |-> pattern_to_regex(lines[i])]

\* load_gitignore without the root .gitignore: the defaults only
load_gitignore_defaults_only(gi) ==
    [i \in DOMAIN default_ignores |-> pattern_to_regex(default_ignores[i])]

\* load_gitignore: PathSpec.from_lines('gitwildmatch', patterns + default_ignores)
load_gitignore(gi) ==
    LET lines == ReadLines(gi) \o default_ignores
    IN  [i \in DOMAIN lines |-> pattern_to_regex(lines[i])]

\* str(relative_path) without the replacement of the separator
relative_path_str_raw(path, s) == Join(path, s)

\* str(relative_path).replace(os.sep, '/')
relative_path_str(path, s) == Replace(Join(path, s), s, SLASH)


----------------------------------------------------------------------------
(* The state of one run *)

VARIABLES
    sep,               \* os.sep of the platform
    rootIsDir,         \* root_dir.is_dir()
    reverseScan,       \* the listing order of the operating system
    tree,              \* the leaf entries under the root
    gitignore,         \* <root>/.gitignore: whether it is a file, and its lines
    outfile,           \* the output file: "absent", "old" or "written"
    pc,                \* the position of main
    spec,              \* the PathSpec returned by load_gitignore
    walk,              \* the entries rglob has still to yield
    visited,           \* the entries rglob has yielded, in order
    files_to_include,  \* the list gather_files_to_include builds
    verdicts,          \* every call of spec.match_file: its argument and result
    printed,           \* the messages printed, in order
    renderEntered,     \* write_codebase_to_file has been called
    opens,             \* the number of times the output file was opened
    ioFailed,          \* an IOError was caught in write_codebase_to_file
    total,             \* the 'Total files' count of the header
    todo,              \* the files the render loop has still to write
    sections           \* the sections written to the output file, in order

inputs == <<sep, rootIsDir, reverseScan, tree, gitignore>>

gatherVars == <<spec, walk, visited, files_to_include, verdicts>>

renderVars == <<renderEntered, opens, ioFailed, total, todo, sections, outfile>>

vars == <<inputs, gatherVars, renderVars, pc, printed>>

\* the trees of at most MaxLeaves leaves that can exist under separator s
Trees(s) ==
    { t \in SUBSET LeafUniverse : Cardinality(t) <= MaxLeaves /\ TreeOk(t, s) }

\* the .gitignore files of at most n lines, no line written twice
Contents(n) ==
    { GitignoreFile(l) :
        l \in { m \in UNION { [1..k -> LineUniverse] : k \in 0..n } :
                  \A i, j \in DOMAIN m : i # j => m[i] # m[j] } }

\* the state before anything has run
Blank ==
    /\ spec = <<>>
    /\ walk = <<>>
    /\ visited = <<>>
    /\ files_to_include = <<>>
    /\ verdicts = <<>>
    /\ printed = <<>>
    /\ renderEntered = FALSE
    /\ opens = 0
    /\ ioFailed = FALSE
    /\ total = 0
    /\ todo = <<>>
    /\ sections = <<>>

\* main is started on a path that may or may not be a directory; the
\* output file may already exist; the root has no .gitignore, or one of
\* two (build/ alone, or *.log and build/)
Init ==
    /\ sep \in {SLASH, BACKSLASH}
    /\ reverseScan \in BOOLEAN
    /\ rootIsDir \in BOOLEAN
    /\ tree \in (IF rootIsDir THEN Trees(sep) ELSE {{}})
    /\ gitignore \in (IF rootIsDir THEN {NoFile, GitignoreFile(<<L_build>>),
                                         GitignoreFile(<<L_log, L_build>>)}
                                   ELSE {NoFile})
    /\ outfile \in {"absent", "old"}
    /\ pc = "start"
    /\ Blank

\* load_gitignore and gather_files_to_include called on a directory
InitGather ==
    /\ sep \in {SLASH, BACKSLASH}
    /\ reverseScan = FALSE
    /\ rootIsDir = TRUE
    /\ tree \in Trees(sep)
    /\ gitignore \in {NoFile} \cup Contents(MaxLines)
    /\ outfile = "absent"
    /\ pc = "load"
    /\ Blank

----------------------------------------------------------------------------
(* The steps of main *)

\* main, lines 112-120: the root must be a directory
Start ==
    /\ pc = "start"
    /\ IF rootIsDir
       THEN /\ printed' = Append(printed, "starting")
            /\ pc' = "load"
       ELSE /\ printed' = Append(printed, "error_not_found")
            /\ pc' = "done"
    /\ UNCHANGED <<inputs, gatherVars, renderVars>>

\* load_gitignore, then the start of the walk of gather_files_to_include
LoadGitignore ==
    /\ pc = "load"
    /\ spec' = load_gitignore(gitignore)
    /\ walk' = rglob(AllEntries(tree, gitignore), reverseScan)
    /\ pc' = "gather"
    /\ UNCHANGED <<inputs, visited, files_to_include, verdicts, renderVars, printed>>

\* one iteration of the loop of gather_files_to_include that puts an
\* included file in front of the list
GatherStepPrepend ==
    /\ pc = "gather"
    /\ walk # <<>>
    /\ LET e == Head(walk)
           f == relative_path_str(e.path, sep)
           m == match_file(spec, f, sep)
       IN  /\ walk' = Tail(walk)
           /\ visited' = Append(visited, e)
           /\ IF is_file(e.kind)
              THEN /\ verdicts' = Append(verdicts, [file |-> f, ignored |-> m])
                   /\ files_to_include' =
                        IF ~m THEN <<e>> \o files_to_include ELSE files_to_include
              ELSE UNCHANGED <<verdicts, files_to_include>>
    /\ UNCHANGED <<inputs, spec, renderVars, pc, printed>>

\* one iteration of the loop of gather_files_to_include
GatherStep ==
    /\ pc = "gather"
    /\ walk # <<>>
    /\ LET e == Head(walk)
           f == relative_path_str(e.path, sep)
           m == match_file(spec, f, sep)
       IN  /\ walk' = Tail(walk)
           /\ visited' = Append(visited, e)
           /\ IF is_file(e.kind)
              THEN /\ verdicts' = Append(verdicts, [file |-> f, ignored |-> m])
                   /\ files_to_include' =
                        IF ~m THEN Append(files_to_include, e) ELSE files_to_include
              ELSE UNCHANGED <<verdicts, files_to_include>>
    /\ UNCHANGED <<inputs, spec, renderVars, pc, printed>>

\* the walk is over
Gathered == pc = "gather" /\ walk = <<>>

\* main, lines 125-129, going on to the render step whatever the list
CheckEmptyAlwaysRender ==
    /\ Gathered
    /\ printed' = Append(printed, "found")
    /\ pc' = "open"
    /\ UNCHANGED <<inputs, gatherVars, renderVars>>

\* main, lines 125-129: an empty list ends the run
CheckEmpty ==
    /\ Gathered
    /\ IF files_to_include = <<>>
       THEN /\ printed' = Append(printed, "no_files")
            /\ pc' = "done"
       ELSE /\ printed' = Append(printed, "found")
            /\ pc' = "open"
    /\ UNCHANGED <<inputs, gatherVars, renderVars>>

\* write_codebase_to_file, lines 56-64: the output file is opened for
\* writing (created or truncated) and the header written
OpenOutput ==
    /\ pc = "open"
    /\ renderEntered' = TRUE
    /\ opens' = opens + 1
    /\ outfile' = "written"
    /\ total' = Len(files_to_include)
    /\ todo' = files_to_include
    /\ sections' = <<>>
    /\ pc' = "render"
    /\ UNCHANGED <<inputs, gatherVars, ioFailed, printed>>

\* write_codebase_to_file, lines 59 and 87-88: open() raises IOError
OpenFails ==
    /\ pc = "open"
    /\ renderEntered' = TRUE
    /\ opens' = opens + 1
    /\ ioFailed' = TRUE
    /\ printed' = Append(printed, "error_writing")
    /\ pc' = "summary"
    /\ UNCHANGED <<inputs, gatherVars, outfile, total, todo, sections>>

\* the body of a section, by the outcome of reading the file
Body(outcome) ==
    CASE outcome = "read"         -> "content"
      [] outcome = "decode_error" -> "decode_warning"
      [] outcome = "other_error"  -> "error_note"

\* one iteration of the render loop in which a file that cannot be read
\* gets no section
WriteSectionSkipFailed ==
    /\ pc = "render"
    /\ todo # <<>>
    /\ \E outcome \in {"read", "decode_error", "other_error"} :
         sections' = IF outcome = "read"
                     THEN Append(sections,
                            [file |-> relative_path_str(Head(todo).path, sep),
                             body |-> Body(outcome)])
                     ELSE sections
    /\ todo' = Tail(todo)
    /\ UNCHANGED <<inputs, gatherVars, renderEntered, opens, ioFailed, total,
                   outfile, pc, printed>>

\* one iteration of the render loop, lines 67-85: the heading, then the
\* content of the file or a placeholder when reading it raises
WriteSection ==
    /\ pc = "render"
    /\ todo # <<>>
    /\ \E outcome \in {"read", "decode_error", "other_error"} :
         sections' = Append(sections,
                            [file |-> relative_path_str(Head(todo).path, sep),
                             body |-> Body(outcome)])
    /\ todo' = Tail(todo)
    /\ UNCHANGED <<inputs, gatherVars, renderEntered, opens, ioFailed, total,
                   outfile, pc, printed>>

\* lines 87-88: a write to the output file, or its close, raises IOError;
\* what was written stays, the function prints the error and returns
WriteFails ==
    /\ pc = "render"
    /\ ioFailed' = TRUE
    /\ printed' = Append(printed, "error_writing")
    /\ pc' = "summary"
    /\ UNCHANGED <<inputs, gatherVars, renderEntered, opens, total, todo,
                   sections, outfile>>

\* the loop is over and the output file is closed
CloseOutput ==
    /\ pc = "render"
    /\ todo = <<>>
    /\ pc' = "summary"
    /\ UNCHANGED <<inputs, gatherVars, renderVars, printed>>

\* main, lines 133-140: the summary printed once write_codebase_to_file
\* has returned
PrintSummary ==
    /\ pc = "summary"
    /\ printed' = printed \o <<"complete", "success">>
    /\ pc' = "done"
    /\ UNCHANGED <<inputs, gatherVars, renderVars>>

Next ==
    \/ Start
    \/ LoadGitignore
    \/ GatherStep
    \/ CheckEmpty
    \/ OpenOutput
    \/ OpenFails
    \/ WriteSection
    \/ WriteFails
    \/ CloseOutput
    \/ PrintSummary

Spec == Init /\ [][Next]_vars

NextGather ==
    \/ LoadGitignore
    \/ GatherStep

SpecGather == InitGather /\ [][NextGather]_vars


----------------------------------------------------------------------------
(* Notions the properties are stated with *)

\* the root-relative path written with forward slashes
ForwardSlashPath(path) == Join(path, SLASH)

\* does the string end with the suffix
EndsWith(s, suffix) ==
    /\ Len(s) >= Len(suffix)
    /\ SubSeq(s, Len(s) - Len(suffix) + 1, Len(s)) = suffix

\* the elements of a sequence
Range(q) == { q[i] : i \in DOMAIN q }

\* the entries under the root in this run
Entries == AllEntries(tree, gitignore)

\* the lines of the pattern set, the user's first, then the defaults
PatternLines == ReadLines(gitignore) \o default_ignores

\* the patterns of a list of lines, in the order of the lines
Compiled(lines) == [i \in DOMAIN lines |-> pattern_to_regex(lines[i])]

\* the verdict of the last pattern of a list that matches the file, if any
LastMatchVerdict(pats, file) ==
    LET S    == Split(file, SLASH)
        hits == { i \in DOMAIN pats : pats[i].active /\ PatternMatches(pats[i], S) }
    IN  IF hits = {} THEN FALSE
        ELSE pats[CHOOSE i \in hits : \A j \in hits : j <= i].include

\* is the entry ignored by the compiled pattern set of this run
Ignored(e) == match_file(spec, ForwardSlashPath(e.path), sep)

\* the files is_file() accepts among the visited entries, in visiting order
VisitedFiles == SelectSeq(visited, LAMBDA e : is_file(e.kind))

\* a target of the default patterns: a path under a .git or __pycache__
\* directory, a name ending in .pyc, or the name .DS_Store
IsDefaultTarget(path) ==
    \/ \E k \in 1..(Len(path) - 1) : path[k] \in {N_git, N_pycache}
    \/ EndsWith(Last(path), S_pyc)
    \/ Last(path) = N_DS_Store

\* has the .gitignore the given line
HasLine(l) == gitignore.is_file /\ \E i \in DOMAIN gitignore.lines : gitignore.lines[i] = l

\* was a message printed
Printed(m) == \E i \in DOMAIN printed : printed[i] = m

----------------------------------------------------------------------------
(* C1 *)

\* C1 as stated: the inclusion list is exactly the visited entries that are
\* regular files (a symbolic link is not one) and are not matched, in
\* visiting order
C1_RegularFilesOnly ==
    Gathered =>
      files_to_include =
        SelectSeq(visited, LAMBDA e : e.kind = "file" /\ ~Ignored(e))

\* C1, amended: once the walk is over every entry under the root was visited
\* exactly once, and the inclusion list is exactly the visited entries for
\* which is_file() holds (regular files and symbolic links to regular
\* files) and whose forward-slash path the pattern set does not match, in
\* visiting order; no directory is in it; without a .gitignore the pattern
\* set is the four defaults
C1_GatherExact ==
    Gathered =>
      /\ Len(visited) = Cardinality(Entries)
      /\ Range(visited) = Entries
      /\ files_to_include =
           SelectSeq(visited, LAMBDA e : e.kind \in {"file", "symlink_file"} /\ ~Ignored(e))
      /\ \A i \in DOMAIN files_to_include : files_to_include[i].kind # "dir"
      /\ ~gitignore.is_file =>
           Range(files_to_include) =
             { e \in Entries : /\ e.kind \in {"file", "symlink_file"}
                               /\ ~LastMatchVerdict(Compiled(default_ignores),
                                                     ForwardSlashPath(e.path)) }

\* the walk is over, two files are included and one file is left out,
\* and a directory was visited
C1_Witness ==
    /\ Gathered
    /\ Len(files_to_include) >= 2
    /\ Len(VisitedFiles) > Len(files_to_include)
    /\ \E i \in DOMAIN visited : visited[i].kind = "dir"

----------------------------------------------------------------------------
(* C2 *)

\* C2: once the walk is over, every verdict the matcher gave is the verdict of the last line, among
\* the user's lines followed by the defaults, that matches the path (not
\* excluded when no line matches); an empty pattern list excludes nothing
C2_LastMatchWins ==
    Gathered =>
      LET pats == Compiled(PatternLines)
      IN  \A i \in DOMAIN verdicts :
            /\ verdicts[i].ignored = LastMatchVerdict(pats, verdicts[i].file)
            /\ ~match_file(<<>>, verdicts[i].file, sep)

\* a path that a directory line excludes and a later negated line
\* re-includes got the verdict of the later line
C2_Witness ==
    /\ gitignore = GitignoreFile(<<L_build, L_not_keep>>)
    /\ \E i \in DOMAIN verdicts :
         /\ verdicts[i].file = ForwardSlashPath(<<N_build, N_keep_txt>>)
         /\ ~verdicts[i].ignored

----------------------------------------------------------------------------
(* C3 *)

\* C3: whatever the .gitignore says, no target of a default pattern is in
\* the inclusion list
C3_DefaultsAlwaysExcluded ==
    \A i \in DOMAIN files_to_include : ~IsDefaultTarget(files_to_include[i].path)

\* the .gitignore negates .git/ and a file under .git was visited
C3_Witness ==
    /\ Gathered
    /\ HasLine(L_not_git)
    /\ \E i \in DOMAIN visited : visited[i].path = <<N_git, N_config>>

----------------------------------------------------------------------------
(* C4 *)

\* C4 as stated: when the .gitignore has the directory line build/, no
\* file beneath a directory named build is in the inclusion list, whatever
\* the later lines
C4_NoResurrection ==
    HasLine(L_build) =>
      \A i \in DOMAIN files_to_include :
        LET path == files_to_include[i].path
        IN  ~ \E k \in 1..(Len(path) - 1) : path[k] = N_build

----------------------------------------------------------------------------
(* C5 *)

\* the scenario: a.py, build/out.log and a .gitignore of *.log and build/
C5_Scenario ==
    /\ tree = { [path |-> <<N_a_py>>, kind |-> "file"],
                [path |-> <<N_build, N_out_log>>, kind |-> "file"] }
    /\ gitignore = GitignoreFile(<<L_log, L_build>>)

\* C5 as stated: in the scenario the inclusion list is a.py only
C5_OnlyAPy ==
    (C5_Scenario /\ Gathered) =>
      Range(files_to_include) = { [path |-> <<N_a_py>>, kind |-> "file"] }

\* C5, amended: in the scenario the inclusion list holds a.py and the
\* .gitignore file itself, each once, and nothing else; build/out.log is
\* not in it
C5_APyAndGitignore ==
    (C5_Scenario /\ Gathered) =>
      /\ Range(files_to_include) = { [path |-> <<N_a_py>>, kind |-> "file"], GitignoreEntry }
      /\ Len(files_to_include) = 2

\* the scenario, walked to the end
C5_Witness == C5_Scenario /\ Gathered /\ Len(visited) = 4

----------------------------------------------------------------------------
(* C6 *)

\* the run found no directory or nothing to include
NothingToRender ==
    \/ ~rootIsDir
    \/ pc \in {"open", "render", "summary", "done"} /\ files_to_include = <<>>

\* C6: when the root is no directory or the inclusion list is empty, the
\* output file is never opened or changed, the render step is never
\* entered, no success summary is printed, and the run ends on the error
\* message
C6_NoOutputWithoutFiles ==
    NothingToRender =>
      /\ opens = 0
      /\ outfile \in {"absent", "old"}
      /\ ~renderEntered
      /\ ~Printed("success") /\ ~Printed("complete")
      /\ pc \notin {"open", "render", "summary"}
      /\ pc = "done" => Last(printed) \in {"error_not_found", "no_files"}

\* a root whose files are all ignored: the run has ended and an output
\* file that existed is as it was
C6_Witness ==
    /\ pc = "done"
    /\ rootIsDir
    /\ tree # {}
    /\ files_to_include = <<>>
    /\ outfile = "old"
    /\ Printed("no_files")

----------------------------------------------------------------------------
(* C7 *)

\* C7 as stated: after an IOError on the output file the success summary
\* is never printed
C7_NoSuccessAfterIOError ==
    ioFailed => ~Printed("success") /\ ~Printed("complete")

----------------------------------------------------------------------------
(* C8 *)

\* C8: while the output file stays writable the sections written are, in
\* order, those of the first files of the inclusion list, one each, with a
\* content or a placeholder body; when the loop is over there is one
\* section per included file and their number is the header's total
C8_OneSectionPerFile ==
    (renderEntered /\ ~ioFailed) =>
      /\ total = Len(files_to_include)
      /\ Len(sections) + Len(todo) = total
      /\ \A i \in DOMAIN sections :
           /\ sections[i].file = ForwardSlashPath(files_to_include[i].path)
           /\ sections[i].body \in {"content", "decode_warning", "error_note"}
      /\ pc \in {"summary", "done"} => Len(sections) = total

\* a run that ended with a placeholder section followed by the section of
\* a file that was read
C8_Witness ==
    /\ pc = "done"
    /\ ~ioFailed
    /\ Len(sections) >= 2
    /\ sections[1].body = "error_note"
    /\ sections[2].body = "content"

----------------------------------------------------------------------------
(* C9 *)

\* C9 as stated: only regular files are in the inclusion list, never a
\* symbolic link
C9_NoSymlink ==
    \A i \in DOMAIN files_to_include : files_to_include[i].kind = "file"

\* C9, amended: every entry of the inclusion list is a regular file or a
\* symbolic link to a regular file, never a directory, a socket, a device
\* or a link to a directory; a link to a regular file that no pattern
\* matches is in the list once the walk is over
C9_OnlyIsFile ==
    /\ \A i \in DOMAIN files_to_include :
         files_to_include[i].kind \in {"file", "symlink_file"}
    /\ Gathered =>
         \A e \in Entries :
           (e.kind = "symlink_file" /\ ~Ignored(e)) => e \in Range(files_to_include)

\* a socket and a link to a regular file were visited; the link is in the
\* list
C9_Witness ==
    /\ Gathered
    /\ \E i \in DOMAIN visited : visited[i].kind = "socket"
    /\ \E i \in DOMAIN files_to_include : files_to_include[i].kind = "symlink_file"

----------------------------------------------------------------------------
(* C10 *)

\* C10 as stated: no string passed to the matcher contains a backslash
C10_NoBackslash ==
    \A i \in DOMAIN verdicts : ~HasChar(verdicts[i].file, BACKSLASH)

\* C10, amended: the string passed to the matcher for a file is its
\* components joined by '/'; where the separator is the backslash it
\* contains no backslash, and where it is the slash it contains one only
\* if a file name does; sub/dir/file.txt is passed as 'sub/dir/file.txt'
C10_SeparatorsNormalised ==
    /\ Len(verdicts) = Len(VisitedFiles)
    /\ \A i \in DOMAIN verdicts :
         LET path == VisitedFiles[i].path
         IN  /\ verdicts[i].file = ForwardSlashPath(path)
             /\ sep = BACKSLASH => ~HasChar(verdicts[i].file, BACKSLASH)
             /\ HasChar(verdicts[i].file, BACKSLASH) =>
                  \E k \in DOMAIN path : HasChar(path[k], BACKSLASH)
             /\ path = <<N_sub, N_dir, N_file_txt>> => verdicts[i].file = S_sub_dir_file

\* under the backslash separator sub\dir\file.txt was passed to the matcher
C10_Witness ==
    /\ sep = BACKSLASH
    /\ \E i \in DOMAIN verdicts : verdicts[i].file = S_sub_dir_file

====
